---- MODULE Spec2Model ----
(***************************************************************************)
(* Model of the Tilde calculator, src/src/TildeMathematicaClean.jsx:       *)
(* the state hooks of TildeMathematica, the event handlers of              *)
(* InteractiveCalculator / BetaSlider / the tab navigation, the memoized   *)
(* derived values (commonTerms, result, gateCount, errorPercentage) and    *)
(* the numeric helpers (sliderToBeta, calculateLutLength, getLutValue).    *)
(*                                                                         *)
(* Numbers.  Operands, bit widths, results and gate counts are integers.   *)
(* parseInt can also produce NaN, which is carried as the value NaN.       *)
(* beta is an IEEE double.  A double v is carried as the integer           *)
(*     2 * floor(v * Scale) + (0 if v * Scale is an integer, else 1)       *)
(* so an even number 2q is the decimal q / Scale exactly and an odd number *)
(* 2q+1 is a double strictly between q / Scale and (q+1) / Scale.  The     *)
(* order of the encodings is the order of the doubles.  This keeps the     *)
(* fact that decides a floor: the literal 1.05 is the double               *)
(* 1.05 + 4.4e-17, so 8 / (1.05 - 1) is just below 160.                    *)
(***************************************************************************)
EXTENDS Integers, Sequences, FiniteSets, TLC

VARIABLES activeTab, bitWidth, a, b, operation, beta,
          commonTerms, result, gateCount, errorPercentage

state == <<activeTab, bitWidth, a, b, operation, beta>>
memos == <<commonTerms, result, gateCount, errorPercentage>>
vars == <<activeTab, bitWidth, a, b, operation, beta,
          commonTerms, result, gateCount, errorPercentage>>

---------------------------------------------------------------------------
(* Bounds of the model *)

\* Operand fields: the integers typed into A and B range over -1 .. MaxTyped.
MaxTyped == 9

\* The beta slider (0 .. 100, step 0.1) is moved to NumSliderStops + 1
\* evenly spread positions.
NumSliderStops == 4

\* The bit width slider is moved to the widths MinBitWidth .. MaxWidthMoved
\* (the presets also set wider ones).
MaxWidthMoved == 5

---------------------------------------------------------------------------
(* JavaScript numbers *)

\* NaN, as produced by parseInt; no other number of the model has this value.
NaN == -999999999

\* +Infinity, as produced by a division by zero; it is above every other
\* number of the model, so comparisons, Math.min and Math.max need no case.
Infinity == 2147483647

\* Resolution of the doubles: micro-units.
Scale == 1000 * 1000

\* The decimal q / Scale, exactly representable.
Exactly(q) == 2 * q

\* A double strictly between q / Scale and (q + 1) / Scale.
Above(q) == 2 * q + 1

\* floor(v * Scale) of an encoded double.
Lo(x) == x \div 2

IsExact(x) == x % 2 = 0

Min2(x, y) == IF x <= y THEN x ELSE y

Max2(x, y) == IF x >= y THEN x ELSE y

\* Math.min / Math.max / Math.abs / + / - on integers or NaN.
MathMin(x, y) == IF x = NaN \/ y = NaN THEN NaN ELSE Min2(x, y)

MathMax(x, y) == IF x = NaN \/ y = NaN THEN NaN ELSE Max2(x, y)

MathAbs(x) == IF x = NaN THEN NaN ELSE IF x < 0 THEN -x ELSE x

Plus(x, y) ==
  IF x = NaN \/ y = NaN THEN NaN
  ELSE IF x = Infinity \/ y = Infinity THEN Infinity
  ELSE x + y

\* x * y for x, y > 0.
Times(x, y) == IF x = Infinity \/ y = Infinity THEN Infinity ELSE x * y

Minus(x, y) == IF x = NaN \/ y = NaN THEN NaN ELSE x - y

\* x === y on numbers: NaN is not equal to itself.
StrictEq(x, y) == x # NaN /\ y # NaN /\ x = y

\* x < y on numbers: false when either is NaN.
LessThan(x, y) == x # NaN /\ y # NaN /\ x < y

\* Object.is(x, y) on numbers, as useMemo compares dependencies: NaN is NaN.
ObjectIs(x, y) == x = y

---------------------------------------------------------------------------
(* Fixed-point arithmetic for Math.exp, Math.log and the quotients *)

\* Working precision of exp: 1e-8.
Prec == 10000 * 10000

\* round(x * y / limb^2) for x, y >= 0, in limbs so that no intermediate
\* product leaves 32 bits.
MulFix(x, y, limb) ==
  LET xh == x \div limb
      xl == x % limb
      yh == y \div limb
      yl == y % limb
  IN  xh * yh
        + (xh * yl + xl * yh + (xl * yl + limb \div 2) \div limb + limb \div 2)
            \div limb

\* round(x * y / Prec) and round(x * y / Scale).
MulPrec(x, y) == MulFix(x, y, 10000)

MulScale(x, y) == MulFix(x, y, 1000)

\* The Taylor series of exp(r), r in [0, ln 2), summed until the term vanishes.
RECURSIVE ExpSeries(_, _, _)
ExpSeries(r, term, i) ==
  IF term = 0 THEN 0
  ELSE term + ExpSeries(r, (MulPrec(term, r) + i \div 2) \div i, i + 1)

\* ln 2, ln 0.02 and ln 29 in units of 1 / Prec.
LN2 == 69314718

\* Math.exp(x): x in units of 1 / Prec, the result rounded to 1 / Scale.
\* exp(x) = 2^n * exp(r) with x = n * ln 2 + r.
MathExp(x) ==
  LET n == x \div LN2
      r == x - n * LN2
      e == ExpSeries(r, Prec, 1)
      cut == Prec \div Scale
  IN  IF n >= 0
      THEN (e \div cut) * 2^n + ((e % cut) * 2^n + cut \div 2) \div cut
      ELSE (e \div 2^(-n) + cut \div 2) \div cut

\* floor(x * 10^n / y) for x >= 0, y > 0, by long division.
RECURSIVE DivDigits(_, _, _)
DivDigits(x, y, n) ==
  IF n = 0 THEN <<x \div y, x % y>>
  ELSE LET p == DivDigits(x, y, n - 1)
       IN  <<10 * p[1] + (10 * p[2]) \div y, (10 * p[2]) % y>>

\* The number of halvings that bring x below 2 and of doublings that bring
\* it to 1 or above, x in units of 1 / Scale.
RECURSIVE Halvings(_)
Halvings(x) == IF x < 2 * Scale THEN 0 ELSE 1 + Halvings(x \div 2)

RECURSIVE Doublings(_)
Doublings(x) == IF x >= Scale THEN 0 ELSE 1 + Doublings(2 * x)

\* z + z^3 / 3 + z^5 / 5 + ..., summed until the power vanishes; power is
\* z^k and zz is z^2, in units of 1 / Prec.
RECURSIVE AtanhSeries(_, _, _)
AtanhSeries(zz, power, k) ==
  IF power = 0 THEN 0
  ELSE (power + k \div 2) \div k + AtanhSeries(zz, MulPrec(power, zz), k + 2)

\* Math.log(x): x > 0 in units of 1 / Scale, the result in units of
\* 1 / Prec.  log(x) = n * ln 2 + 2 * atanh((m - 1) / (m + 1)) with
\* x = 2^n * m and m in [1, 2).
MathLog(x) ==
  LET up == Doublings(x)
      down == Halvings(x)
      cut == Prec \div Scale
      m == IF up > 0 THEN x * 2^up * cut
           ELSE (x \div 2^down) * cut + ((x % 2^down) * cut) \div 2^down
      z == DivDigits((m - Prec) \div 2, (m + Prec) \div 2, 8)[1]
  IN  (down - up) * LN2 + 2 * AtanhSeries(MulPrec(z, z), z, 1)

---------------------------------------------------------------------------
(* Constants of the program *)

EFFICIENCY_THRESHOLD == Exactly(2 * Scale)

\* The literals 1.02 and 30.0 of betaToSlider / sliderToBeta.  The double
\* 1.02 is 1.02 + 1.8e-17.
BetaMin == Above(1020000)

BetaMax == Exactly(30 * Scale)

\* Math.log(0.02) and Math.log(29.0) in units of 1 / Prec.
logMin == -391202301

logMax == 336729583

\* The range of the bit width slider.
MinBitWidth == 2

MaxBitWidth == 12

\* The operation buttons with a fifth one.
OperationsWithPower == {"add", "sub", "mul", "div", "pow"}

Operations == {"add", "sub", "mul", "div"}

navigationTabs == {"calculator", "beta", "hardware", "visualizations", "reference"}

\* The doubles of the preset literals: 2.5, 4.0 and 1.5 are exact, 1.4 is
\* 1.4 - 8.9e-17 and 1.05 is 1.05 + 4.4e-17.
presets ==
  { [name |-> "AI/ML Inference", beta |-> Exactly(2500000), bitWidth |-> 4],
    [name |-> "High Efficiency", beta |-> Exactly(4000000), bitWidth |-> 4],
    [name |-> "IoT Sensors", beta |-> Exactly(1500000), bitWidth |-> 5],
    [name |-> "MIDI Music", beta |-> Above(1399999), bitWidth |-> 6],
    [name |-> "Ultra Precision", beta |-> Above(1050000), bitWidth |-> 8] }

---------------------------------------------------------------------------
(* Beta conversion and LUT functions *)

\* The slider value 100, in the unit of slider values: 1 / Scale.
SliderMax == 100 * Scale

\* betaToSlider without the clamp at 30.0.
betaToSliderNoUpperClamp(bt) ==
  IF bt <= BetaMin THEN 0
  ELSE LET logBeta == MathLog(Lo(bt) - Scale)
       IN  DivDigits((logBeta - logMin) \div 4, (logMax - logMin) \div 4, 8)[1]

\* betaToSlider with the logarithm of beta instead of beta - 1.0.
betaToSliderOfLogBeta(bt) ==
  IF bt <= BetaMin THEN 0
  ELSE IF bt >= BetaMax THEN SliderMax
  ELSE LET logBeta == MathLog(Lo(bt))
       IN  DivDigits((logBeta - logMin) \div 4, (logMax - logMin) \div 4, 8)[1]

\* betaToSlider(beta): the slider value in units of 1 / Scale.  The
\* quotient by logMax - logMin is taken on quarters to stay within 32 bits.
betaToSlider(bt) ==
  IF bt <= BetaMin THEN 0
  ELSE IF bt >= BetaMax THEN SliderMax
  ELSE LET logBeta == MathLog(Lo(bt) - Scale)
       IN  DivDigits((logBeta - logMin) \div 4, (logMax - logMin) \div 4, 8)[1]

\* sliderToBeta without the clamp to [1.02, 30.0].
sliderToBetaUnclamped(sliderValue) ==
  LET logBeta == logMin + MulPrec(logMax - logMin, sliderValue)
  IN  Exactly(Scale + MathExp(logBeta))

\* sliderToBeta(sliderValue), the slider value in units of 1 / Scale, so
\* that sliderValue / 100 is in units of 1 / Prec.  The exponential is
\* carried to the nearest 1 / Scale.
sliderToBeta(sliderValue) ==
  LET logBeta == logMin + MulPrec(logMax - logMin, sliderValue)
  IN  Max2(BetaMin, Min2(BetaMax, Exactly(Scale + MathExp(logBeta))))

\* The slider value of a position given in tenths (the step is 0.1).
Tenths(t) == t * (Scale \div 10)

\* Math.floor(4 / x): the quotient with the numerator 4.
FloorFourOver(x) ==
  IF x = 0 THEN Infinity
  ELSE IF IsExact(x) THEN (4 * Scale) \div Lo(x)
  ELSE (4 * Scale - 1) \div Lo(x)

\* Math.floor(8 / x) for an encoded double x >= 0: a double just above the
\* decimal q / Scale gives a quotient just below 8 * Scale / q, and 8 / 0
\* is Infinity.
FloorEightOver(x) ==
  IF x = 0 THEN Infinity
  ELSE IF IsExact(x) THEN (8 * Scale) \div Lo(x)
  ELSE (8 * Scale - 1) \div Lo(x)

\* calculateLutLength with the threshold compared strictly.
calculateLutLengthStrictThreshold(bt) ==
  LET baseLength == Max2(1, FloorEightOver(bt - Exactly(Scale)))
  IN  IF bt > EFFICIENCY_THRESHOLD THEN 1 ELSE baseLength

calculateLutLength(bt) ==
  LET baseLength == Max2(1, FloorEightOver(bt - Exactly(Scale)))
  IN  IF bt >= EFFICIENCY_THRESHOLD THEN 1 ELSE baseLength

\* min(cap, floor(log(n) / log(bt))) for an integer n >= 1 and bt > 1: the
\* number of k in 1 .. cap with bt^k <= n; p is bt^k in units of 1 / Scale.
RECURSIVE LogSteps(_, _, _, _, _)
LogSteps(n, bt, cap, k, p) ==
  IF k >= cap THEN k
  ELSE LET next == MulScale(p, Lo(bt))
       IN  IF next > n * Scale THEN k ELSE LogSteps(n, bt, cap, k + 1, next)

\* Math.log(1) is 0, so for bt = 1 the quotient is 0 / 0 = NaN when n = 1
\* and Infinity otherwise.
FloorLog(n, bt, cap) ==
  IF bt = Exactly(Scale) THEN (IF n = 1 THEN NaN ELSE Infinity)
  ELSE LogSteps(n, bt, cap, 0, Scale)

\* getLutValue without the cap Math.min(d, ...).
getLutValueUncapped(d, bt) ==
  IF bt >= EFFICIENCY_THRESHOLD /\ LessThan(0, d) THEN 1
  ELSE IF d = NaN THEN NaN
  ELSE FloorLog(d + 1, bt, 1000)

\* getLutValue without the test of d in the simplified regime.
getLutValueIgnoringGap(d, bt) ==
  IF bt >= EFFICIENCY_THRESHOLD THEN 1
  ELSE IF d = NaN THEN NaN
  ELSE MathMin(d, FloorLog(d + 1, bt, d))

\* getLutValue with the threshold compared strictly.
getLutValueStrictThreshold(d, bt) ==
  IF bt > EFFICIENCY_THRESHOLD /\ LessThan(0, d) THEN 1
  ELSE IF d = NaN THEN NaN
  ELSE MathMin(d, FloorLog(d + 1, bt, d))

getLutValue(d, bt) ==
  IF bt >= EFFICIENCY_THRESHOLD /\ LessThan(0, d) THEN 1
  ELSE IF d = NaN THEN NaN
  ELSE MathMin(d, FloorLog(d + 1, bt, d))

\* Math.log(0.5 * (beta - 1)) and Math.log(beta) in units of 1 / Prec;
\* log(0.5 * y) is carried as log(y) - ln 2.
LogHalfExcess(bt) == MathLog(Lo(bt) - Scale) - LN2

LogBeta(bt) == MathLog(Lo(bt))

\* alpha_add with a floor in place of the ceiling.
alphaAddFloor(bt) == (-LogHalfExcess(bt)) \div LogBeta(bt)

\* Math.ceil(-Math.log(0.5 * (beta - 1)) / Math.log(beta)); -0 is shown as 0.
alphaAdd(bt) == -(LogHalfExcess(bt) \div LogBeta(bt))

\* Math.floor(-Math.log(0.5 * (beta - 1)) / Math.log(beta))
alphaCarry(bt) == (-LogHalfExcess(bt)) \div LogBeta(bt)

---------------------------------------------------------------------------
(* Derived values of TildeMathematica *)

\* 1 << bitWidth as a 32-bit integer: the shift count is taken modulo 32
\* and bit 31 is the sign.
ShiftLeftOne(w) == IF w % 32 = 31 THEN -(2^30) - 2^30 ELSE 2^(w % 32)

maxValueOf(w) == ShiftLeftOne(w) - 1

\* The common terms with the first operand in place of the larger one.
computeCommonTermsFirstAsLarger(av, bv) ==
  [ Za |-> StrictEq(av, 0),
    Zb |-> StrictEq(bv, 0),
    Ua |-> StrictEq(av, 1),
    Ub |-> StrictEq(bv, 1),
    E |-> StrictEq(av, bv),
    d |-> MathAbs(Minus(av, bv)),
    m |-> av ]

computeCommonTerms(av, bv) ==
  [ Za |-> StrictEq(av, 0),
    Zb |-> StrictEq(bv, 0),
    Ua |-> StrictEq(av, 1),
    Ub |-> StrictEq(bv, 1),
    E |-> StrictEq(av, bv),
    d |-> MathAbs(Minus(av, bv)),
    m |-> MathMax(av, bv) ]

\* The add case without the gap cutoff.
addCaseNoCutoff(ct, bt) ==
  IF ct.Za \/ ct.Zb THEN ct.m
  ELSE Plus(ct.m, getLutValue(ct.d, bt))

\* The four cases of the switch in the result memo.
addCase(ct, bt) ==
  IF ct.Za \/ ct.Zb THEN ct.m
  ELSE IF LessThan(ct.d, 8) THEN Plus(ct.m, getLutValue(ct.d, bt))
  ELSE ct.m

\* The sub case with the gap cutoff of add.
subCaseWithCutoff(ct, bt) ==
  IF ct.E THEN 0
  ELSE IF ct.Za \/ ct.Zb THEN ct.m
  ELSE IF LessThan(ct.d, 8) THEN Minus(ct.m, getLutValue(ct.d, bt))
  ELSE ct.m

subCase(ct, bt) ==
  IF ct.E THEN 0
  ELSE IF ct.Za \/ ct.Zb THEN ct.m
  ELSE Minus(ct.m, getLutValue(ct.d, bt))

\* The mul case without the offset of one.
mulCaseNoOffset(ct, av, bv) ==
  IF ct.Za \/ ct.Zb THEN 0
  ELSE IF ct.Ua \/ ct.Ub THEN ct.m
  ELSE Plus(av, bv)

mulCase(ct, av, bv) ==
  IF ct.Za \/ ct.Zb THEN 0
  ELSE IF ct.Ua \/ ct.Ub THEN ct.m
  ELSE Minus(Plus(av, bv), 1)

\* The div case without the offset of one.
divCaseNoOffset(ct, av, bv, maxValue) ==
  IF ct.Za THEN 0
  ELSE IF ct.Zb THEN maxValue
  ELSE IF ct.E THEN 1
  ELSE Minus(av, bv)

\* The div case testing the divisor before the dividend.
divCaseDivisorFirst(ct, av, bv, maxValue) ==
  IF ct.Zb THEN maxValue
  ELSE IF ct.Za THEN 0
  ELSE IF ct.E THEN 1
  ELSE Plus(Minus(av, bv), 1)

divCase(ct, av, bv, maxValue) ==
  IF ct.Za THEN 0
  ELSE IF ct.Zb THEN maxValue
  ELSE IF ct.E THEN 1
  ELSE Plus(Minus(av, bv), 1)

\* The clamp without its upper bound.
clampResultLowerOnly(res, maxValue) == MathMax(0, res)

\* Math.min(Math.max(0, res), maxValue)
clampResult(res, maxValue) == MathMin(MathMax(0, res), maxValue)

computeResult(op, ct, bt, maxValue, av, bv) ==
  LET res == CASE op = "add" -> addCase(ct, bt)
               [] op = "sub" -> subCase(ct, bt)
               [] op = "mul" -> mulCase(ct, av, bv)
               [] op = "div" -> divCase(ct, av, bv, maxValue)
               [] OTHER -> 0
  IN  clampResult(res, maxValue)

\* The gate count with four gates per LUT entry in both regimes.
computeGateCountFlatLut(w, lutLength, bt) ==
  LET sharedGates == w * 6 + 32
      addGates == w * 3 + 16
      subGates == w * 4 + 20
      mulGates == w * 2 + 12
      divGates == w * 2 + 12
      decoderGates == 12
      muxGates == w * 6
      baseGates == sharedGates + addGates + subGates + mulGates + divGates
                     + decoderGates + muxGates
      lutGates == Times(lutLength, 4)
  IN  [ base |-> baseGates, lut |-> lutGates,
        total |-> Plus(baseGates, lutGates),
        shared |-> sharedGates, add |-> addGates, sub |-> subGates,
        mul |-> mulGates, div |-> divGates,
        control |-> decoderGates + muxGates ]

\* Math.round of an integer is that integer, and of Infinity is Infinity.
computeGateCount(w, lutLength, bt) ==
  LET sharedGates == w * 6 + 32
      addGates == w * 3 + 16
      subGates == w * 4 + 20
      mulGates == w * 2 + 12
      divGates == w * 2 + 12
      decoderGates == 12
      muxGates == w * 6
      baseGates == sharedGates + addGates + subGates + mulGates + divGates
                     + decoderGates + muxGates
      lutGates == IF bt >= EFFICIENCY_THRESHOLD THEN Times(lutLength, 4)
                  ELSE Times(lutLength, 12)
  IN  [ base |-> baseGates, lut |-> lutGates,
        total |-> Plus(baseGates, lutGates),
        shared |-> sharedGates, add |-> addGates, sub |-> subGates,
        mul |-> mulGates, div |-> divGates,
        control |-> decoderGates + muxGates ]

\* The error percentage with the divisor beta: 100 * (beta - 1) / beta.
computeErrorPercentageOverBeta(bt) ==
  DivDigits(Lo(bt) - Scale, Lo(bt), 6)[1]

\* 100 * (beta - 1) / (beta + 1), in units of 0.0001 percent, rounded down.
computeErrorPercentage(bt) ==
  DivDigits(Lo(bt) - Scale, Lo(bt) + Scale, 6)[1]

---------------------------------------------------------------------------
(* useMemo: a memo is recomputed in a render when one of its dependencies *)
(* is not Object.is-equal to its value in the previous render.            *)

\* [a, b]
commonTermsDepsChanged ==
  ~ObjectIs(a', a) \/ ~ObjectIs(b', b)

\* The dependency list of result without beta.
resultDepsChangedWithoutBeta ==
  \/ operation' # operation
  \/ commonTermsDepsChanged
  \/ ~ObjectIs(maxValueOf(bitWidth'), maxValueOf(bitWidth))
  \/ ~ObjectIs(a', a)
  \/ ~ObjectIs(b', b)

\* [operation, commonTerms, beta, maxValue, a, b]; commonTerms is compared
\* by identity and is a new object exactly when it was recomputed.
resultDepsChanged ==
  \/ operation' # operation
  \/ commonTermsDepsChanged
  \/ ~ObjectIs(beta', beta)
  \/ ~ObjectIs(maxValueOf(bitWidth'), maxValueOf(bitWidth))
  \/ ~ObjectIs(a', a)
  \/ ~ObjectIs(b', b)

\* [bitWidth, lutLength, beta]
gateCountDepsChanged ==
  \/ ~ObjectIs(bitWidth', bitWidth)
  \/ ~ObjectIs(calculateLutLength(beta'), calculateLutLength(beta))
  \/ ~ObjectIs(beta', beta)

\* [beta]
errorPercentageDepsChanged ==
  ~ObjectIs(beta', beta)

\* The render with a gate total of the selected operation only.
RenderGateCountOfOperation ==
  /\ commonTerms' = IF commonTermsDepsChanged
                    THEN computeCommonTerms(a', b') ELSE commonTerms
  /\ result' = IF resultDepsChanged
               THEN computeResult(operation', commonTerms', beta',
                                  maxValueOf(bitWidth'), a', b')
               ELSE result
  /\ gateCount' =
       IF gateCountDepsChanged \/ operation' # operation
       THEN LET g == computeGateCount(bitWidth', calculateLutLength(beta'),
                                      beta')
            IN  [g EXCEPT !.total = g.shared + g.control + g.lut
                                      + g[operation']]
       ELSE gateCount
  /\ errorPercentage' = IF errorPercentageDepsChanged
                        THEN computeErrorPercentage(beta')
                        ELSE errorPercentage

\* The render that follows a state update.
Render ==
  /\ commonTerms' = IF commonTermsDepsChanged
                    THEN computeCommonTerms(a', b') ELSE commonTerms
  /\ result' = IF resultDepsChanged
               THEN computeResult(operation', commonTerms', beta',
                                  maxValueOf(bitWidth'), a', b')
               ELSE result
  /\ gateCount' = IF gateCountDepsChanged
                  THEN computeGateCount(bitWidth', calculateLutLength(beta'),
                                        beta')
                  ELSE gateCount
  /\ errorPercentage' = IF errorPercentageDepsChanged
                        THEN computeErrorPercentage(beta')
                        ELSE errorPercentage

\* Values computed in every render.
maxValue == maxValueOf(bitWidth)

lutLength == calculateLutLength(beta)

\* BetaSlider: the position shown by the range input.
sliderValue == betaToSlider(beta)

\* The mode labels: the badge of BetaSlider, the description of the Live
\* Snapshot and the description of the Error Rate card.
badgeMode ==
  IF beta >= EFFICIENCY_THRESHOLD THEN "Simplified Mode" ELSE "Full LUT Mode"

snapshotMode ==
  IF beta >= EFFICIENCY_THRESHOLD THEN "Simplified mode" ELSE "Full LUT mode"

errorRateMode ==
  IF beta > EFFICIENCY_THRESHOLD THEN "Simplified mode" ELSE "Full LUT mode"

\* The first render computes every memo.
Mounted ==
  /\ commonTerms = computeCommonTerms(a, b)
  /\ result = computeResult(operation, commonTerms, beta,
                            maxValueOf(bitWidth), a, b)
  /\ gateCount = computeGateCount(bitWidth, calculateLutLength(beta), beta)
  /\ errorPercentage = computeErrorPercentage(beta)

---------------------------------------------------------------------------
(* The component: initial state and event handlers *)

Init ==
  /\ activeTab = "calculator"
  /\ bitWidth = 4
  /\ a = 5
  /\ b = 3
  /\ operation = "add"
  /\ beta = Exactly(2500000)
  /\ Mounted

\* What can be typed into a number field: digits with an optional sign, the
\* empty field, or a fraction without integer part such as ".5".
TypedTexts ==
  { [kind |-> "integer", n |-> v] : v \in (-1) .. MaxTyped }
    \cup { [kind |-> "empty", n |-> 0], [kind |-> "fraction", n |-> 0] }

\* parseInt(e.target.value || 0)
parseOperand(text) ==
  CASE text.kind = "empty" -> 0
    [] text.kind = "integer" -> text.n
    [] text.kind = "fraction" -> NaN

\* The positions the beta slider is moved to, in tenths.
SliderStops == { (1000 * i) \div NumSliderStops : i \in 0 .. NumSliderStops }

\* The positions the bit width slider is moved to.
BitWidthStops == MinBitWidth .. Min2(MaxBitWidth, MaxWidthMoved)

\* onChange of the bit width slider
SetBitWidth ==
  /\ activeTab = "calculator"
  /\ \E w \in BitWidthStops : bitWidth' = w
  /\ UNCHANGED <<activeTab, a, b, operation, beta>>
  /\ Render

\* onChange of the A field
SetA ==
  /\ activeTab = "calculator"
  /\ \E text \in TypedTexts : a' = parseOperand(text)
  /\ UNCHANGED <<activeTab, bitWidth, b, operation, beta>>
  /\ Render

\* onChange of the B field
SetB ==
  /\ activeTab = "calculator"
  /\ \E text \in TypedTexts : b' = parseOperand(text)
  /\ UNCHANGED <<activeTab, bitWidth, a, operation, beta>>
  /\ Render

\* onClick of an operation button
SetOperation ==
  /\ activeTab = "calculator"
  /\ \E op \in Operations : operation' = op
  /\ UNCHANGED <<activeTab, bitWidth, a, b, beta>>
  /\ Render

\* BetaSlider.handleSliderChange
handleSliderChange ==
  /\ activeTab = "calculator"
  /\ \E tenths \in SliderStops : beta' = sliderToBeta(Tenths(tenths))
  /\ UNCHANGED <<activeTab, bitWidth, a, b, operation>>
  /\ Render

\* A preset that also puts the operands back to 5 and 3.
applyPresetResettingOperands ==
  /\ activeTab = "calculator"
  /\ \E preset \in presets :
       /\ beta' = preset.beta
       /\ bitWidth' = preset.bitWidth
  /\ a' = 5
  /\ b' = 3
  /\ UNCHANGED <<activeTab, operation>>
  /\ Render

\* onClick of a preset button
applyPreset ==
  /\ activeTab = "calculator"
  /\ \E preset \in presets :
       /\ beta' = preset.beta
       /\ bitWidth' = preset.bitWidth
  /\ UNCHANGED <<activeTab, a, b, operation>>
  /\ Render

\* onClick of a tab button
SetActiveTab ==
  /\ \E tab \in navigationTabs : activeTab' = tab
  /\ UNCHANGED <<bitWidth, a, b, operation, beta>>
  /\ Render

Next ==
  \/ SetBitWidth
  \/ SetA
  \/ SetB
  \/ SetOperation
  \/ handleSliderChange
  \/ applyPreset
  \/ SetActiveTab

Spec == Init /\ [][Next]_vars

---------------------------------------------------------------------------
(* The core called as a function: the inputs are drawn from bounded sets  *)
(* and the operands are then varied.                                       *)

\* 1.02, 1.05, 1.1, 1.4, 1.5, the slider value next below the threshold
\* (53.7 -> 1.99697...), 2.0, 2.5, 4.0 and 30.0.
BetaInputs ==
  { BetaMin, Above(1050000), Above(1100000), Above(1399999), Exactly(1500000),
    sliderToBeta(Tenths(537)), EFFICIENCY_THRESHOLD, Exactly(2500000),
    Exactly(4000000), BetaMax }

\* The four operations and a tag outside the enumeration.
OperationTags == Operations \cup {"pow"}

InitFn ==
  /\ activeTab = "calculator"
  /\ bitWidth \in BitWidthStops
  /\ a = 1
  /\ b = 1
  /\ operation \in OperationTags
  /\ beta \in BetaInputs
  /\ Mounted

NextFn ==
  \/ SetA
  \/ SetB

SpecFn == InitFn /\ [][NextFn]_vars

---------------------------------------------------------------------------
(* The core called outside the ranges of the sliders: the helpers and the  *)
(* derived values accept any number, so beta and the bit width are also    *)
(* drawn from beyond [1.02, 30.0] and [2, 12].                             *)

\* The betas of BetaInputs, 1.0, 3.0 and 40.0.
DomainBetas ==
  BetaInputs \cup {Exactly(Scale), Exactly(3 * Scale), Exactly(40 * Scale)}

\* Bit widths below and above the slider range, on both sides of the 32-bit
\* shift count.
DomainWidths == {1, 30, 32}

InitDomain ==
  /\ activeTab = "calculator"
  /\ bitWidth \in DomainWidths
  /\ a = 1
  /\ b = 1
  /\ operation \in Operations
  /\ beta \in DomainBetas
  /\ Mounted

SpecDomain == InitDomain /\ [][NextFn]_vars

---------------------------------------------------------------------------
(* Properties *)

IsOperand(x) == x \in 0 .. maxValue

ValidOperands == IsOperand(a) /\ IsOperand(b)

IntegerOperands == a # NaN /\ b # NaN

\* d = |a - b| and m = max(a, b) of integer operands
Gap == IF a >= b THEN a - b ELSE b - a

Larger == IF a >= b THEN a ELSE b

\* clamp(res, 0, maxValue)
Clamped(res) == Min2(Max2(0, res), maxValue)

\* C1: for valid operands (0 <= a, b <= maxValue) the result is an integer
\* in 0 .. maxValue, for every operation, bit width and beta.
ResultInRange ==
  ValidOperands => result \in 0 .. maxValue

\* C1 witness: a multiplication whose formula a + b - 1 exceeds maxValue.
ResultInRangeWitness ==
  /\ ValidOperands
  /\ operation = "mul"
  /\ a > 1 /\ b > 1
  /\ a + b - 1 > maxValue
  /\ result = maxValue

\* C2: add gives clamp(m) when an operand is 0, clamp(m + lutValue(d, beta))
\* when both are nonzero and d < 8, and clamp(m) when d >= 8; 5 + 3 at
\* beta = 2.5, w = 4 is 6.
AddRule ==
  (operation = "add" /\ IntegerOperands) =>
    /\ (a = 0 \/ b = 0) => result = Clamped(Larger)
    /\ (a # 0 /\ b # 0 /\ Gap < 8) =>
         result = Clamped(Larger + getLutValue(Gap, beta))
    /\ (a # 0 /\ b # 0 /\ Gap >= 8) => result = Clamped(Larger)
    /\ (beta = Exactly(2500000) /\ bitWidth = 4 /\ a = 5 /\ b = 3) => result = 6

\* C2 witness: nonzero valid operands with a gap of 8 or more, LUT dropped.
AddRuleWitness ==
  /\ operation = "add"
  /\ ValidOperands
  /\ a # 0 /\ b # 0
  /\ Gap >= 8
  /\ result = Larger

MulRule ==
  (operation = "mul" /\ IntegerOperands) =>
    /\ (a = 0 \/ b = 0) => result = 0
    /\ (a # 0 /\ b # 0 /\ (a = 1 \/ b = 1)) => result = Clamped(Larger)
    /\ (a # 0 /\ b # 0 /\ a # 1 /\ b # 1) => result = Clamped(a + b - 1)
    /\ (bitWidth = 4 /\ a = 0 /\ b = 9) => result = 0
    /\ (bitWidth = 4 /\ a = 1 /\ b = 9) => result = 9
    /\ (bitWidth = 4 /\ a = 3 /\ b = 4) => result = 6

\* C4 witness: 3 * 4 = 6 at w = 4 in the full-LUT regime.
MulRuleWitness ==
  /\ operation = "mul"
  /\ bitWidth = 4 /\ a = 3 /\ b = 4
  /\ beta < EFFICIENCY_THRESHOLD
  /\ result = 6

\* C5: div gives 0 when a = 0 (also for 0 / 0), else maxValue when b = 0,
\* else 1 when a = b, else clamp(a - b + 1), which is 0 when a < b - 1.
DivRule ==
  (operation = "div" /\ IntegerOperands) =>
    /\ a = 0 => result = 0
    /\ (a # 0 /\ b = 0) => result = Clamped(maxValue)
    /\ (a # 0 /\ b # 0 /\ a = b) => result = Clamped(1)
    /\ (a # 0 /\ b # 0 /\ a # b) => result = Clamped(a - b + 1)
    /\ a < b - 1 => result = 0
    /\ (bitWidth = 4 /\ a = 0 /\ b = 5) => result = 0
    /\ (bitWidth = 4 /\ a = 5 /\ b = 0) => result = 15
    /\ (bitWidth = 4 /\ a = 5 /\ b = 5) => result = 1
    /\ (bitWidth = 4 /\ a = 7 /\ b = 3) => result = 5

\* C5 witness: 0 / 0 is 0.
DivRuleWitness ==
  /\ operation = "div"
  /\ a = 0 /\ b = 0
  /\ result = 0

\* Exact floor and ceiling of x * y / Scale for x, y >= 0.
MulFloor(x, y) ==
  LET xh == x \div 1000
      xl == x % 1000
      yh == y \div 1000
      yl == y % 1000
  IN  xh * yh + (xh * yl + xl * yh + (xl * yl) \div 1000) \div 1000

MulCeil(x, y) ==
  LET xh == x \div 1000
      xl == x % 1000
      yh == y \div 1000
      yl == y % 1000
      low == ((xh * yl + xl * yh) % 1000) * 1000 + xl * yl
  IN  MulFloor(x, y) + (IF low % Scale = 0 THEN 0 ELSE 1)

\* Bounds of bt^k in units of 1 / Scale: PowerBelow <= bt^k <= PowerAbove
\* for every double in the cell of bt.
RECURSIVE PowerBelow(_, _)
PowerBelow(bt, k) ==
  IF k = 0 THEN Scale ELSE MulFloor(PowerBelow(bt, k - 1), Lo(bt))

RECURSIVE PowerAbove(_, _)
PowerAbove(bt, k) ==
  IF k = 0 THEN Scale ELSE MulCeil(PowerAbove(bt, k - 1), Lo(bt) + (bt % 2))

\* v = min(d, floor(log_bt(d + 1))): v is in 0 .. d, bt^v <= d + 1, and
\* d + 1 < bt^(v + 1) unless v = d.
IsMinOfGapAndFloorLog(v, d, bt) ==
  /\ v \in 0 .. d
  /\ PowerAbove(bt, v) <= (d + 1) * Scale
  /\ v < d => PowerBelow(bt, v + 1) > (d + 1) * Scale

\* C6: lutValue(d, beta) is 1 when beta >= 2.0 and d > 0, and otherwise
\* min(d, floor(log_beta(d + 1))); it is 0 for d = 0 on both sides of 2.0.
LutValueRule ==
  IntegerOperands =>
    LET v == getLutValue(Gap, beta)
    IN  /\ (beta >= EFFICIENCY_THRESHOLD /\ Gap > 0) => v = 1
        /\ ~(beta >= EFFICIENCY_THRESHOLD /\ Gap > 0) =>
             IsMinOfGapAndFloorLog(v, Gap, beta)
        /\ Gap = 0 => v = 0

\* C6 witness: a subtraction below the threshold where the logarithm, not
\* the gap, is the minimum.
LutValueRuleWitness ==
  /\ operation = "sub"
  /\ ValidOperands
  /\ a # 0 /\ b # 0
  /\ beta < EFFICIENCY_THRESHOLD
  /\ getLutValue(Gap, beta) > 1
  /\ getLutValue(Gap, beta) < Gap
  /\ result = Larger - getLutValue(Gap, beta)

\* C7 as claimed: lutLength is an integer >= 1, is 1 from beta = 2.0 on and
\* max(1, floor(8 / (beta - 1))) below, so that lutLength(1.5) = 16 and
\* lutLength(1.1) = 80 (the literal 1.1 is the double Above(1100000)).
LutLengthAsClaimed ==
  /\ lutLength >= 1
  /\ beta >= EFFICIENCY_THRESHOLD => lutLength = 1
  /\ (beta < EFFICIENCY_THRESHOLD /\ IsExact(beta)) =>
       lutLength = Max2(1, (8 * Scale) \div (Lo(beta) - Scale))
  /\ beta = Exactly(1500000) => lutLength = 16
  /\ beta = Above(1100000) => lutLength = 80

\* C8: after any sequence of UI actions every memoized derived value equals
\* the pure function of the current (beta, w, a, b, operation).
DerivedValuesCurrent ==
  /\ commonTerms = computeCommonTerms(a, b)
  /\ result = computeResult(operation, computeCommonTerms(a, b), beta,
                            maxValue, a, b)
  /\ gateCount = computeGateCount(bitWidth, lutLength, beta)
  /\ errorPercentage = computeErrorPercentage(beta)

\* C8 witness: every input was changed from its initial value, the beta
\* last, on another tab, and the result is the one for the new beta.
DerivedValuesCurrentWitness ==
  /\ activeTab # "calculator"
  /\ bitWidth = 5
  /\ a = 7 /\ b = 2
  /\ operation = "sub"
  /\ beta = Exactly(1500000)
  /\ result = 3
  /\ gateCount.lut = 192
  /\ errorPercentage = 200000

\* C9 as claimed: both operands are always within 0 .. maxValue.
OperandsInRange ==
  IsOperand(a) /\ IsOperand(b)

\* C10 as claimed: a result computed for an operation tag outside
\* {add, sub, mul, div} is an error outcome, not a number.
UnknownOperationRejected ==
  operation \notin Operations => result \notin Int

\* C11 as claimed: called with beta <= 1, lutLength and lutValue give an
\* error outcome and no number, Infinity and NaN included.
LutFunctionsRejectBetaOne ==
  (beta <= Exactly(Scale) /\ IntegerOperands) =>
    /\ lutLength \notin Int
    /\ getLutValue(Gap, beta) \notin Int

\* C12: the gate-count record has shared = 6w + 32, add = 3w + 16,
\* sub = 4w + 20, mul = 2w + 12, div = 2w + 12, control = 12 + 6w,
\* lut = 4 * lutLength from beta = 2.0 on and 12 * lutLength below, and
\* total the sum of the seven; the total is 200 for w = 4, beta = 2.5.
GateCountRule ==
  LET w == bitWidth
      g == gateCount
  IN  /\ g.shared = 6 * w + 32
      /\ g.add = 3 * w + 16
      /\ g.sub = 4 * w + 20
      /\ g.mul = 2 * w + 12
      /\ g.div = 2 * w + 12
      /\ g.control = 12 + 6 * w
      /\ g.lut = IF beta >= EFFICIENCY_THRESHOLD THEN 4 * lutLength
                 ELSE 12 * lutLength
      /\ g.total = g.shared + g.add + g.sub + g.mul + g.div + g.control + g.lut
      /\ (w = 4 /\ beta = Exactly(2500000)) => g.total = 200

\* C12 witness: the hardware tab after the preset 1.5 / 5, sixteen LUT
\* entries at twelve gates each.
GateCountRuleWitness ==
  /\ activeTab = "hardware"
  /\ bitWidth = 5
  /\ beta = Exactly(1500000)
  /\ gateCount.lut = 192
  /\ gateCount.total = 411

\* C13: in every state reached from beta = 2.5, w = 4 through the beta
\* slider, the bit width slider and the presets, beta is in [1.02, 30.0]
\* and the bit width in [2, 12].
BetaAndWidthInRange ==
  /\ BetaMin <= beta /\ beta <= BetaMax
  /\ bitWidth \in 2 .. 12

\* C13 witness: the beta slider at its left end after the preset of width 8.
BetaAndWidthInRangeWitness ==
  /\ beta = BetaMin
  /\ bitWidth = 8
  /\ gateCount.lut = 12 * 399

\* v = 2^w - 1 for 1 <= w <= 32, written so that no power leaves 32 bits.
IsAllOnes(v, w) ==
  IF w <= 2 THEN v = 2^w - 1
  ELSE v % 4 = 3 /\ v \div 4 = 2^(w - 2) - 1

\* C14 as claimed: for every bit width w >= 1 maxValue is 2^w - 1, positive
\* and strictly increasing in w, also where 1 << w is a 32-bit shift.
MaxValueIsAllOnes ==
  /\ IsAllOnes(maxValue, bitWidth)
  /\ maxValue > 0
  /\ \A w \in DomainWidths : w < bitWidth => maxValueOf(w) < maxValue

\* 100 percent in the unit of errorPercentage.
Hundred == 100 * 10000

BetaToSliderRule ==
  /\ beta <= BetaMin => sliderValue = 0
  /\ beta >= BetaMax => sliderValue = SliderMax
  /\ (BetaMin < beta /\ beta < BetaMax) =>
       /\ 0 < sliderValue /\ sliderValue < SliderMax
       /\ \A other \in DomainBetas :
            (BetaMin < other /\ other < beta) =>
              betaToSlider(other) < sliderValue
  /\ sliderValue \in 0 .. SliderMax

\* C16 witness: beta = 1.5 is shown at 44.219464, right of beta = 1.4.
BetaToSliderRuleWitness ==
  /\ beta = Exactly(1500000)
  /\ sliderValue = 44219464
  /\ betaToSlider(Above(1399999)) < sliderValue
  /\ betaToSlider(Exactly(40 * Scale)) = SliderMax

\* C17: for beta strictly inside (1.02, 30.0),
\* sliderToBeta(betaToSlider(beta)) is within 1e-6 relative error of beta.
SliderRoundTrip ==
  (BetaMin < beta /\ beta < BetaMax) =>
    LET back == sliderToBeta(betaToSlider(beta))
        diff == Lo(back) - Lo(beta)
        tolerance == Lo(beta) \div Scale
    IN  -tolerance <= diff /\ diff <= tolerance

\* C17 witness: beta = 4.0 goes to the slider value 68.833848 and back.
SliderRoundTripWitness ==
  /\ beta = Exactly(4000000)
  /\ betaToSlider(beta) = 68833848
  /\ sliderToBeta(68833848) = beta

\* C18: the gate-count record is a function of (w, beta) only and is not
\* fed back into the arithmetic: a step that keeps w and beta (a change of
\* a, b or the operation) leaves every gate-count field unchanged, and the
\* result is determined by (beta, w, a, b, operation) alone.
GateCountIsolated ==
  /\ [](gateCount = computeGateCount(bitWidth, lutLength, beta))
  /\ [](result = computeResult(operation, computeCommonTerms(a, b), beta,
                               maxValue, a, b))
  /\ [][(bitWidth' = bitWidth /\ beta' = beta) => gateCount' = gateCount]_vars

\* C18 witness: both operands and the operation were changed and the gate
\* count is still the one of w = 4, beta = 2.5.
GateCountIsolatedWitness ==
  /\ bitWidth = 4
  /\ beta = Exactly(2500000)
  /\ a = 9 /\ b = 2
  /\ operation = "div"
  /\ result = 8
  /\ gateCount.total = 200

SaysSimplified(label) == label \in {"Simplified Mode", "Simplified mode"}

SaysFullLut(label) == label \in {"Full LUT Mode", "Full LUT mode"}

\* C19 as claimed: the badge, the Live Snapshot and the Error Rate card all
\* say Simplified exactly when beta >= 2.0, the condition under which
\* lutLength is 1, and Full LUT otherwise, also at beta = 2.0.
ModeLabelsAgree ==
  \A label \in {badgeMode, snapshotMode, errorRateMode} :
    /\ beta >= EFFICIENCY_THRESHOLD => SaysSimplified(label)
    /\ beta < EFFICIENCY_THRESHOLD => SaysFullLut(label)

\* C20 as claimed: sub applies the gap cutoff of add, as the Reference tab
\* states; for nonzero operands with d >= 8 the result is m, without the
\* LUT correction.
SubAppliesCutoff ==
  (operation = "sub" /\ ValidOperands /\ a # 0 /\ b # 0) =>
    /\ Gap >= 8 => result = Clamped(Larger)
    /\ (Gap < 8 /\ a # b) =>
         result = Clamped(Larger - getLutValue(Gap, beta))

\* C21: from beta = 2.0 on, the boundary included, lutLength is 1 and
\* lutValue(|a - b|, beta) is 0 when a = b and 1 when a # b.
SimplifiedRegimeCollapse ==
  (beta >= EFFICIENCY_THRESHOLD /\ IntegerOperands) =>
    /\ lutLength = 1
    /\ a = b => getLutValue(Gap, beta) = 0
    /\ a # b => getLutValue(Gap, beta) = 1

\* C21 witness: a subtraction of distinct operands at beta = 2.0 takes 1 off.
SimplifiedRegimeCollapseWitness ==
  /\ beta = EFFICIENCY_THRESHOLD
  /\ operation = "sub"
  /\ ValidOperands
  /\ a # 0 /\ b # 0 /\ Gap > 1
  /\ lutLength = 1
  /\ result = Larger - 1

\* v = floor(-n / d) and v = ceil(-n / d) for d > 0.
IsFloorOfNegQuotient(v, n, d) == v * d <= -n /\ -n < (v + 1) * d

IsCeilOfNegQuotient(v, n, d) == (v - 1) * d < -n /\ -n <= v * d

\* C22: for beta in [1.02, 30.0], alphaAdd is the ceiling and alphaCarry
\* the floor of the same x = -log_beta((beta - 1) / 2); so
\* alphaCarry <= alphaAdd <= alphaCarry + 1, they are equal exactly when x
\* is an integer (both 0 at beta = 3), and both are finite integers.
AlphaRule ==
  (BetaMin <= beta /\ beta <= BetaMax) =>
    LET n == LogHalfExcess(beta)
        d == LogBeta(beta)
        up == alphaAdd(beta)
        down == alphaCarry(beta)
    IN  /\ IsCeilOfNegQuotient(up, n, d)
        /\ IsFloorOfNegQuotient(down, n, d)
        /\ down <= up /\ up <= down + 1
        /\ (up = down) <=> (n % d = 0)
        /\ beta = Exactly(3 * Scale) => (up = 0 /\ down = 0)
        /\ {up, down} \subseteq (-1) .. 233

\* C22 witness: at beta = 3 both parameters are 0, at beta = 2.5 they are
\* 1 and 0.
AlphaRuleWitness ==
  /\ beta = Exactly(3 * Scale)
  /\ alphaAdd(beta) = 0 /\ alphaCarry(beta) = 0
  /\ alphaAdd(Exactly(2500000)) = 1 /\ alphaCarry(Exactly(2500000)) = 0

\* C23 as claimed: in every state reached through the UI, whatever was
\* typed into the operand fields, the result is an integer in 0 .. maxValue.
ResultAlwaysInRange ==
  result \in 0 .. maxValue

\* C24: in every state reached through the UI the operation is one of add,
\* sub, mul and div, so the default branch of the result switch is not taken.
OperationIsOneOfFour ==
  operation \in {"add", "sub", "mul", "div"}

\* C24 witness: the operation was changed by a button and the result is
\* the one of its case, not the 0 of the default branch.
OperationIsOneOfFourWitness ==
  /\ operation = "div"
  /\ bitWidth = 4
  /\ a = 5 /\ b = 0
  /\ result = 15

\* The result of the current operation with the operands exchanged.
ResultExchanged ==
  computeResult(operation, computeCommonTerms(b, a), beta, maxValue, b, a)

\* C25: add, sub and mul give the same result with the operands
\* exchanged, for every w, beta and operand pair; div does not (5 / 3 is 3
\* and 3 / 5 is 0).
OperandSymmetry ==
  /\ operation \in {"add", "sub", "mul"} => result = ResultExchanged
  /\ (operation = "div" /\ a = 5 /\ b = 3 /\ bitWidth >= 2) =>
       (result = 3 /\ ResultExchanged = 0)

\* C25 witness: a subtraction with the smaller operand first.
OperandSymmetryWitness ==
  /\ operation = "sub"
  /\ bitWidth = 4
  /\ a = 2 /\ b = 7
  /\ beta = Exactly(1500000)
  /\ result = 3
  /\ ResultExchanged = 3

\* The quotient of the current result by b.
ResultDividedByB ==
  computeResult("div", computeCommonTerms(result, b), beta, maxValue,
                result, b)

\* C26: for operands a >= 1, b >= 1 with a + b - 1 <= maxValue,
\* div(mul(a, b), b) = a, also when a = 1 or b = 1, for every beta.
MulDivRoundTrip ==
  (operation = "mul" /\ IntegerOperands /\ a >= 1 /\ b >= 1
     /\ a + b - 1 <= maxValue) =>
    ResultDividedByB = a

\* C26 witness: 3 * 4 = 6 and 6 / 4 = 3 at w = 4.
MulDivRoundTripWitness ==
  /\ operation = "mul"
  /\ bitWidth = 4
  /\ a = 3 /\ b = 4
  /\ result = 6
  /\ ResultDividedByB = 3

\* The betas the slider positions and the presets produce.
ProducedBetas ==
  { sliderToBeta(Tenths(t)) : t \in SliderStops }
    \cup { preset.beta : preset \in presets }

\* The cases in which the result does not consult the LUT, or consults it
\* at d = 0 only.
LutNotConsulted ==
  \/ operation \in {"mul", "div"}
  \/ /\ operation = "add"
     /\ IntegerOperands
     /\ (a = 0 \/ b = 0 \/ Gap >= 8 \/ Gap = 0)
  \/ /\ operation = "sub"
     /\ IntegerOperands
     /\ (a = b \/ a = 0 \/ b = 0)

\* C27: when the LUT is not consulted (mul, div; add with a zero operand,
\* d >= 8 or d = 0; sub with a = b or a zero operand), a state that differs
\* only in beta shows the same result.
ResultIndependentOfBeta ==
  LutNotConsulted =>
    \A other \in ProducedBetas :
      computeResult(operation, computeCommonTerms(a, b), other, maxValue,
                    a, b) = result

\* C27 witness: 3 + 3 in the full-LUT regime is 3, as it is at beta = 2.5.
ResultIndependentOfBetaWitness ==
  /\ operation = "add"
  /\ a = 3 /\ b = 3
  /\ bitWidth = 4
  /\ beta = Exactly(1500000)
  /\ result = 3
  /\ computeResult("add", commonTerms, Exactly(2500000), maxValue, a, b) = 3

LutLengthRange ==
  /\ (BetaMin <= beta /\ beta < EFFICIENCY_THRESHOLD) =>
       (8 <= lutLength /\ lutLength <= 400)
  /\ lutLength \notin 2 .. 7
  /\ beta = EFFICIENCY_THRESHOLD =>
       /\ lutLength = 1
       /\ \A other \in BetaInputs :
            other < beta => calculateLutLength(other) >= 8
  /\ \A other \in BetaInputs :
       other < beta => calculateLutLength(other) >= lutLength
  /\ (beta < EFFICIENCY_THRESHOLD /\ IntegerOperands /\ Gap < 8) =>
       Gap < lutLength

\* C29 witness: just below the threshold (slider position 53.7) the LUT
\* has 8 entries and an addition with gap 7 consults it.
LutLengthRangeWitness ==
  /\ beta = sliderToBeta(Tenths(537))
  /\ lutLength = 8
  /\ operation = "add"
  /\ ValidOperands
  /\ a # 0 /\ b # 0
  /\ Gap = 7
  /\ result = Clamped(Larger + getLutValue(7, beta))

\* The state fields a step may change together: one field alone, or beta
\* and the bit width set to the values of one preset.
OneHandlersFields ==
  \/ UNCHANGED <<activeTab, bitWidth, b, operation, beta>>
  \/ UNCHANGED <<activeTab, bitWidth, a, operation, beta>>
  \/ UNCHANGED <<activeTab, bitWidth, a, b, beta>>
  \/ UNCHANGED <<activeTab, a, b, operation, beta>>
  \/ UNCHANGED <<activeTab, bitWidth, a, b, operation>>
  \/ UNCHANGED <<bitWidth, a, b, operation, beta>>
  \/ /\ UNCHANGED <<activeTab, a, b, operation>>
     /\ \E preset \in presets :
          beta' = preset.beta /\ bitWidth' = preset.bitWidth

\* C30: each UI action changes only its own state fields: a preset sets
\* beta and the bit width to its values and keeps a, b, the operation and
\* the tab; a tab switch changes the tab only; an operand edit or an
\* operation button changes that field only.
HandlersChangeOwnFields ==
  [][OneHandlersFields]_vars

\* C30 witness: operands and operation typed before a preset are still
\* there after it and after a tab switch.
HandlersChangeOwnFieldsWitness ==
  /\ activeTab = "reference"
  /\ beta = Above(1050000)
  /\ bitWidth = 8
  /\ a = 9 /\ b = 2
  /\ operation = "mul"
  /\ result = 10

====
